---- MODULE Spec2Model ----
(***************************************************************************)
(* Dialogue core of the hotel concierge backend:                           *)
(*   utils/nlp_utils.py            classify_intent, extract_time,          *)
(*                                 extract_entities                        *)
(*   services/conversation_service.py                                      *)
(*                                 process_message, handle_transportation, *)
(*                                 extract_place_references                *)
(*   services/transportation_service.py   schedule_transportation          *)
(*   services/openai_service.py           generate_response                *)
(*   routes.py                            send_message                     *)
(*                                                                         *)
(* Messages are strings.  The regular expressions of the source are        *)
(* evaluated character by character on them (word boundaries, substring    *)
(* tests, digit runs).  Every message of the model separates its words by  *)
(* single blanks, so \s+ in a pattern stands for exactly one blank.        *)
(* Timestamps (last_updated, last_response) are left out of the context.   *)
(***************************************************************************)
EXTENDS Integers, Sequences, FiniteSets, TLC

\* ------------------------------------------------------------------------
\* Bounds of the model
\* ------------------------------------------------------------------------
MaxTurns == 3

\* The absent key of a dict / Python None
Null == "null"

\* ------------------------------------------------------------------------
\* Strings
\* ------------------------------------------------------------------------
LowerAlphabet == "abcdefghijklmnopqrstuvwxyzáéíóúñü"
UpperAlphabet == "ABCDEFGHIJKLMNOPQRSTUVWXYZÁÉÍÓÚÑÜ"
Digits == "0123456789"
\* the regex class \w on the characters the model uses
WordChars == LowerAlphabet \o UpperAlphabet \o Digits \o "_"
\* the regex class [a-zá-úñ]
DestChars == "abcdefghijklmnopqrstuvwxyzáâãäåæçèéêëìíîïðñòóôõö÷øùú"

Char(s, i) == SubSeq(s, i, i)

InStr(c, alphabet) == \E k \in 1..Len(alphabet) : Char(alphabet, k) = c

IndexIn(c, alphabet) == CHOOSE k \in 1..Len(alphabet) : Char(alphabet, k) = c

\* literal t occurs in s at position i
At(s, i, t) == i >= 1 /\ i + Len(t) - 1 <= Len(s) /\ SubSeq(s, i, i + Len(t) - 1) = t

\* Python's  t in s
Contains(s, t) == \E i \in 1..Len(s) : At(s, i, t)

IsWordChar(c) == InStr(c, WordChars)

\* regex \b at the gap in front of position i (i in 1..Len(s)+1)
Boundary(s, i) ==
    LET left  == i > 1 /\ IsWordChar(Char(s, i - 1))
        right == i <= Len(s) /\ IsWordChar(Char(s, i))
    IN  left # right

\* regex \bt\b matching at position i
WordAt(s, i, t) == At(s, i, t) /\ Boundary(s, i) /\ Boundary(s, i + Len(t))

RECURSIVE Lower(_)
\* str.lower()
Lower(s) ==
    IF s = "" THEN ""
    ELSE LET c == Head(s)
         IN  (IF InStr(c, UpperAlphabet) THEN Char(LowerAlphabet, IndexIn(c, UpperAlphabet)) ELSE c)
             \o Lower(Tail(s))

RECURSIVE LStrip(_)
LStrip(s) == IF s # "" /\ Head(s) = " " THEN LStrip(Tail(s)) ELSE s

RECURSIVE RStrip(_)
RStrip(s) == IF s # "" /\ Char(s, Len(s)) = " " THEN RStrip(SubSeq(s, 1, Len(s) - 1)) ELSE s

\* str.strip()
Strip(s) == RStrip(LStrip(s))

\* ------------------------------------------------------------------------
\* Regular expressions of the intent and entity tables.
\*   W(A)       \b(a1|a2|..)\b            one of the literals as a word
\*   Then(A, B) \b(a)\b.*\b(b)\b          a word of A, later a word of B
\*   Start(A)   ^(a)\b                    the message starts with a word of A
\*   CheckOut   \bhora\b.*\bcheck.?out\b
\* ------------------------------------------------------------------------
W(A) == [k |-> "w", a |-> A, b |-> {}]
Then(A, B) == [k |-> "seq", a |-> A, b |-> B]
Start(A) == [k |-> "start", a |-> A, b |-> {}]
CheckOut == [k |-> "checkout", a |-> {"hora"}, b |-> {}]

\* \bcheck.?out\b matching at position j
CheckOutAt(s, j) ==
    /\ At(s, j, "check") /\ Boundary(s, j)
    /\ \/ At(s, j + 5, "out") /\ Boundary(s, j + 8)
       \/ j + 5 <= Len(s) /\ At(s, j + 6, "out") /\ Boundary(s, j + 9)

\* re.search(pattern, s)
Search(p, s) ==
    CASE p.k = "w"     -> \E t \in p.a : \E i \in 1..Len(s) : WordAt(s, i, t)
      [] p.k = "seq"   -> \E t \in p.a : \E i \in 1..Len(s) :
                              /\ WordAt(s, i, t)
                              /\ \E u \in p.b : \E j \in (i + Len(t))..Len(s) : WordAt(s, j, u)
      [] p.k = "start" -> \E t \in p.a : At(s, 1, t) /\ Boundary(s, 1 + Len(t))
      [] p.k = "checkout" -> \E i \in 1..Len(s) :
                              /\ WordAt(s, i, "hora")
                              /\ \E j \in (i + 4)..Len(s) : CheckOutAt(s, j)

\* the dict  intents  of classify_intent, in declaration order
IntentNames == <<"greeting", "farewell", "thanks", "help", "recommendation",
                 "room_service", "transportation", "weather", "faq">>

IntentPatterns ==
  [greeting |->
     <<W({"hola"}), W({"buenos dias"}), W({"buenas tardes"}), W({"buenas noches"}),
       Start({"hi"}), Start({"hey"}), W({"saludos"}), Start({"holi"}), W({"volver"})>>,
   farewell |->
     <<W({"adios"}), W({"chao"}), W({"nos vemos"}), W({"hasta luego"}),
       W({"hasta pronto"}), W({"adiós"})>>,
   thanks |->
     <<W({"gracias"}), W({"te agradezco"}), W({"muchas gracias"}), Then({"genial"}, {"gracias"}),
       Then({"perfecto"}, {"gracias"}), Then({"excelente"}, {"gracias"})>>,
   help |->
     <<W({"ayuda"}), W({"ayúdame"}), W({"qué puedes hacer"}), W({"cómo funciona"}),
       W({"qué haces"}), W({"cómo te uso"}), W({"puedes ayudarme"})>>,
   recommendation |->
     <<W({"recomienda"}), Then({"dónde"}, {"comer"}), Then({"dónde"}, {"visitar"}),
       Then({"qué"}, {"recomiendas"}), W({"sugieres"}), Then({"algo para"}, {"visitar"}),
       W({"restaurante"}), W({"bar"}), W({"café"}), W({"museo"}), W({"turismo"}),
       W({"parque"}), W({"atracción", "atraccion"}), W({"actividad"}), W({"conocer"})>>,
   room_service |->
     <<W({"servicio a la habitación", "servicio a la habitacion"}), W({"room service"}),
       Then({"ordenar"}, {"comida"}),
       W({"menú", "menu"}), Then({"comer"}, {"habitación", "habitacion"}), Then({"pedir"}, {"comer"}),
       Then({"quiero"}, {"ordenar"}), W({"hambre"}), Then({"traer"}, {"comida"}),
       Then({"desayuno"}, {"habitación", "habitacion"})>>,
   transportation |->
     <<W({"taxi"}), W({"transporte"}), W({"uber"}), W({"carro"}), W({"vehículo", "vehiculo"}),
       Then({"ir"}, {"aeropuerto"}), Then({"ir"}, {"ciudad"}),
       W({"ir a", "ir al", "ir hacia", "ir para"}), W({"me gustaría ir", "me gustaria ir"}),
       W({"viaje"}), W({"traslado"}), W({"como llegar"}), W({"movilizarme"}),
       W({"a las"}), W({"para las"}), Then({"en"}, {"hora", "horas"}), W({"mañana", "manana"}),
       W({" al "}), W({" hacia "})>>,
   weather |->
     <<W({"clima"}), Then({"tiempo"}, {"hoy"}), W({"llover"}), W({"lluvia"}),
       W({"temperatura"}), W({"calor"}), W({"frío", "frio"}), W({"nublado"}),
       Then({"cómo está"}, {"tiempo"}), W({"pronóstico", "pronostico"})>>,
   faq |->
     <<Then({"clave"}, {"wifi"}), Then({"contraseña"}, {"wifi"}), W({"internet"}),
       Then({"dónde"}, {"piscina"}), Then({"dónde"}, {"spa"}), Then({"dónde"}, {"gym"}),
       Then({"horario"}, {"desayuno"}), CheckOut, Then({"hora"}, {"salida"}),
       Then({"qué"}, {"incluye"}), Then({"servicio"}, {"incluido"}), Then({"pagar"}, {"extra"})>>]

Min(a, b) == IF a <= b THEN a ELSE b

\* number of the patterns of an intent that match the message
MatchCount(intent, s) ==
    Cardinality({k \in 1..Len(IntentPatterns[intent]) : Search(IntentPatterns[intent][k], s)})

\* context.get(key) of an optional context: <<>> is None, <<c>> a dict
CtxGet(context, key) == IF context = <<>> THEN Null ELSE context[1][key]

\* score of an intent after the continuity boost; confidences are in hundredths
Score(intent, s, context) ==
    LET n == MatchCount(intent, s)
    IN  IF n > 0 /\ CtxGet(context, "current_intent") = intent THEN n + 1 ELSE n

\* a confidence that is not capped
ConfidenceUncapped(score) == 50 + score * 10

\* min(0.5 + (score * 0.1), 0.95)
Confidence(score) == Min(50 + score * 10, 95)

\* a short-circuit that looks at the destination only
ContinueWithoutDestination(context) ==
    /\ CtxGet(context, "current_intent") = "transportation"
    /\ CtxGet(context, "destination") = Null

\* the transportation short-circuit of classify_intent
ContinueTransportation(context) ==
    /\ CtxGet(context, "current_intent") = "transportation"
    /\ (CtxGet(context, "destination") = Null \/ CtxGet(context, "pickup_time") = Null)

\* a fallback that ignores the context
NoMatchAlwaysFaq(context) == [intent |-> "faq", confidence |-> 30]

\* what classify_intent returns when no pattern matched
NoMatch(context) ==
    IF CtxGet(context, "current_intent") # Null
      THEN [intent |-> CtxGet(context, "current_intent"), confidence |-> 40]
      ELSE [intent |-> "faq", confidence |-> 30]

\* classify_intent(message, context=None)
classify_intent(message, context) ==
    LET s == Strip(Lower(message))
        scored == {k \in 1..Len(IntentNames) : MatchCount(IntentNames[k], s) > 0}
        conf(k) == Confidence(Score(IntentNames[k], s, context))
        \* max() keeps the first of the entries with the greatest confidence
        best == CHOOSE k \in scored :
                   \A j \in scored : conf(j) < conf(k) \/ (conf(j) = conf(k) /\ k <= j)
    IN  IF ContinueTransportation(context)
          THEN [intent |-> "transportation", confidence |-> 80]
        ELSE IF scored = {} THEN NoMatch(context)
        ELSE [intent |-> IntentNames[best], confidence |-> conf(best)]

\* ------------------------------------------------------------------------
\* extract_time
\* ------------------------------------------------------------------------
IsDigitAt(s, i) == i >= 1 /\ i <= Len(s) /\ InStr(Char(s, i), Digits)

DigitVal(c) == IndexIn(c, Digits) - 1

RECURSIVE NumVal(_)
\* int() of a string of digits
NumVal(d) == IF d = "" THEN 0 ELSE NumVal(SubSeq(d, 1, Len(d) - 1)) * 10 + DigitVal(Char(d, Len(d)))

\* what may follow the digits:  (?:\s*(?:am|pm|AM|PM))?\b  (the text is lower case)
TimeTail(s, e) ==
    \/ Boundary(s, e)
    \/ \E k \in {e, e + 1} :
          /\ k = e \/ At(s, e, " ")
          /\ At(s, k, "am") \/ At(s, k, "pm")
          /\ Boundary(s, k + 2)

\* (\d{1,2}) matching n digits at position i, in front of them \b or "a las "
TimeMatch(s, i, n) ==
    /\ Boundary(s, i)
    /\ \A k \in i..(i + n - 1) : IsDigitAt(s, k)
    /\ TimeTail(s, i + n)

\* f"{hour:02d}:00"
TimeStr(hour) == Char(Digits, (hour \div 10) + 1) \o Char(Digits, (hour % 10) + 1) \o ":00"

extract_time(text) ==
    LET starts == {i \in 1..Len(text) : TimeMatch(text, i, 2) \/ TimeMatch(text, i, 1)}
        i0 == CHOOSE i \in starts : \A j \in starts : i <= j
        n0 == IF TimeMatch(text, i0, 2) THEN 2 ELSE 1
        hour == NumVal(SubSeq(text, i0, i0 + n0 - 1))
    IN  IF starts = {} THEN Null
        ELSE IF Contains(text, "pm") /\ hour < 12 THEN TimeStr(hour + 12)
        ELSE IF Contains(text, "am") /\ hour = 12 THEN TimeStr(0)
        ELSE TimeStr(hour)

\* ------------------------------------------------------------------------
\* extract_entities
\* ------------------------------------------------------------------------
\* the if/elif chain of category patterns, in source order
CategoryPatterns ==
    << <<"restaurant", {W({"restaurante", "comer", "comida", "gastronomía", "gastronomia"})}>>,
       <<"bar", {W({"bar", "beber", "trago", "coctel", "cerveza", "cervecería"})}>>,
       <<"cafe", {W({"café", "cafetería", "cafeteria"})}>>,
       <<"museum", {W({"museo", "arte", "cultura", "exhibición", "exhibicion"})}>>,
       <<"park", {W({"parque", "plaza", "jardín", "jardin", "área verde", "area verde"})}>>,
       <<"attraction", {W({"turismo", "atracción", "atraccion", "visitar"}),
                        Then({"lugar"}, {"turístico", "turistico"})}>>,
       <<"activity", {W({"actividad", "experiencia", "tour", "excursión", "excursion"})}>>,
       <<"shopping", {W({"tienda", "comprar", "shopping", "centro comercial", "mercado"})}>> >>

\* the if/elif chain of time period patterns, in source order
TimePeriodPatterns ==
    << <<"morning", {W({"mañana", "manana", "desayuno", "temprano"})}>>,
       <<"afternoon", {W({"tarde", "almuerzo", "mediodía", "mediodia"})}>>,
       <<"evening", {W({"noche", "cena"}), Then({"tarde"}, {"noche"})}>> >>

\* value of the first branch of an if/elif chain whose pattern matches
FirstBranch(chain, s) ==
    LET hits == {k \in 1..Len(chain) : \E p \in chain[k][2] : Search(p, s)}
    IN  IF hits = {} THEN Null ELSE chain[CHOOSE k \in hits : \A j \in hits : k <= j][1]

food_items == <<"hamburguesa", "sandwich", "sándwich", "ensalada", "pasta", "risotto",
                "sopa", "pescado", "carne", "pollo", "filete", "arroz", "desayuno",
                "americano", "continental", "huevos", "fruta", "postre", "tiramisú",
                "cheesecake", "torta", "helado">>

drink_items == <<"agua", "jugo", "refresco", "soda", "café", "té", "cerveza", "vino",
                 "cóctel", "limonada", "naranja", "piña", "gaseosa">>

\* the dict  common_destinations, in declaration order
common_destinations == <<"aeropuerto", "centro comercial", "parque lleras", "estadio", "terminal",
                         "plaza botero", "museo", "universidad", "hospital", "metro">>

\* last position of the run of characters of a class that starts at j (j - 1: empty run)
RunEnd(s, j, class) ==
    CHOOSE e \in (j - 1)..Len(s) :
        /\ \A k \in j..e : InStr(Char(s, k), class)
        /\ e = Len(s) \/ ~InStr(Char(s, e + 1), class)

\* (?:con|sin|extra)\s+([a-zá-úñ\s,]+)  : group(0) of the leftmost match
SpecialInstructions(s) ==
    LET class == DestChars \o " ,"
        ok(i, t) == At(s, i, t \o " ") /\ i + Len(t) + 1 <= Len(s)
                    /\ InStr(Char(s, i + Len(t) + 1), class)
        starts == {i \in 1..Len(s) : \E t \in {"con", "sin", "extra"} : ok(i, t)}
        i0 == CHOOSE i \in starts : \A j \in starts : i <= j
    IN  IF starts = {} THEN Null
        ELSE SubSeq(s, i0, RunEnd(s, i0 + 1, class))

\* (?:a|al|hacia|para)\s+(?:el|la|los|las)?\s+  at position i: where the capture starts.
\* Between single blanks the article cannot be left out (two \s+ need two blanks).
PrepArticle == {p \o " " \o a \o " " : p \in {"a", "al", "hacia", "para"}, a \in {"el", "la", "los", "las"}}

CaptureStart(s, i) ==
    LET L == {t \in PrepArticle : At(s, i, t)}
    IN  IF L = {} THEN 0 ELSE i + Len(CHOOSE t \in L : TRUE)

\* ([a-zá-úñ][a-zá-úñ\s]+?)(?:\s+(?:stops)|$) from position c: the ends of the capture
CaptureEnds(s, c, stops) ==
    IF c < 1 \/ c > Len(s) \/ ~InStr(Char(s, c), DestChars) THEN {}
    ELSE {e \in (c + 1)..Len(s) :
            /\ \A k \in (c + 1)..e : InStr(Char(s, k), DestChars \o " ")
            /\ e = Len(s) \/ \E st \in stops : At(s, e + 1, " " \o st)}

\* the lazy capture group, "" when the pattern does not match from c
Capture(s, c, stops) ==
    LET E == CaptureEnds(s, c, stops)
    IN  IF E = {} THEN "" ELSE SubSeq(s, c, CHOOSE e \in E : \A f \in E : e <= f)

TextStops == {"en", "con", "a las", "para", "por", "mañana", "hoy"}
TaxiStops == {"para las", "a las"}

\* the capture of the leftmost match among candidate (match start, capture start) pairs
Leftmost(s, cands, stops) ==
    LET ok == {c \in cands : Capture(s, c[2], stops) # ""}
        first == CHOOSE c \in ok : \A d \in ok : c[1] <= d[1]
    IN  IF ok = {} THEN "" ELSE Capture(s, first[2], stops)

\* dest_patterns[0]: (?:ir|voy|vamos|llegar|quiero ir)\s+ prep article capture
DestPattern1(s) ==
    Leftmost(s, {<<x[1], CaptureStart(s, x[1] + Len(x[2]) + 1)>> :
                    x \in {y \in (1..Len(s)) \X {"ir", "voy", "vamos", "llegar", "quiero ir"} :
                              At(s, y[1], y[2] \o " ")}},
             TextStops)

\* dest_patterns[1]: (?:pides?|..)?\s+(?:un)?\s+(?:taxi|uber|carro)\s+ prep article capture
DestPattern2(s) ==
    Leftmost(s, {<<x[1], CaptureStart(s, x[1] + Len(x[2]) + 5)>> :
                    x \in {y \in (1..Len(s)) \X {"taxi", "uber", "carro"} :
                              At(s, y[1], " un " \o y[2] \o " ")}},
             TaxiStops)

\* dest_patterns[2]: prep article capture
DestPattern3(s) ==
    Leftmost(s, {<<i, CaptureStart(s, i)>> : i \in 1..Len(s)}, TextStops)

\* re.sub(r'^(?:ir|voy|vamos|quiero|para|hacia)\s+(?:a|al|el|la|los|las)?\s*', '', d)
StripLeadingVerb(d) ==
    LET V == {v \in {"ir", "voy", "vamos", "quiero", "para", "hacia"} : At(d, 1, v \o " ")}
        v0 == CHOOSE v \in V : TRUE
        rest == SubSeq(d, Len(v0) + 2, Len(d))
        arts == <<"a", "al", "el", "la", "los", "las">>
        A == {k \in 1..Len(arts) : At(rest, 1, arts[k])}
        a0 == arts[CHOOSE k \in A : \A j \in A : k <= j]
    IN  IF V = {} THEN d
        ELSE IF A = {} THEN rest
        ELSE LStrip(SubSeq(rest, Len(a0) + 1, Len(rest)))

\* re.sub(r'\s+(?:en|con|por)\s+(?:taxi|uber|carro).*$', '', d)
StripVehicleSuffix(d) ==
    LET J == {j \in 1..Len(d) : \E x \in {"en", "con", "por"}, v \in {"taxi", "uber", "carro"} :
                  At(d, j, " " \o x \o " " \o v)}
    IN  IF J = {} THEN d ELSE SubSeq(d, 1, (CHOOSE j \in J : \A k \in J : j <= k) - 1)

\* the destination taken from the free-text patterns before the landmarks are looked at
DestinationFreeTextFirst(s) ==
    LET G == {k \in 1..Len(common_destinations) : Search(W({common_destinations[k]}), s)}
        free == IF DestPattern1(s) # "" THEN DestPattern1(s)
                ELSE IF DestPattern2(s) # "" THEN DestPattern2(s)
                ELSE DestPattern3(s)
    IN  IF free # "" THEN StripVehicleSuffix(StripLeadingVerb(Strip(free)))
        ELSE IF G # {} THEN common_destinations[CHOOSE k \in G : \A j \in G : k <= j]
        ELSE ""

\* the destination of the transportation block of extract_entities, before the length test
Destination(s) ==
    LET G == {k \in 1..Len(common_destinations) : Search(W({common_destinations[k]}), s)}
        free == IF DestPattern1(s) # "" THEN DestPattern1(s)
                ELSE IF DestPattern2(s) # "" THEN DestPattern2(s)
                ELSE DestPattern3(s)
    IN  IF G # {} THEN common_destinations[CHOOSE k \in G : \A j \in G : k <= j]
        ELSE IF free = "" THEN ""
        ELSE StripVehicleSuffix(StripLeadingVerb(Strip(free)))

\* para\s+(\d+)\s+personas
Passengers(s) ==
    LET ok(i) == At(s, i, "para ") /\ IsDigitAt(s, i + 5)
                 /\ At(s, RunEnd(s, i + 5, Digits) + 1, " personas")
        I == {i \in 1..Len(s) : ok(i)}
        i0 == CHOOSE i \in I : \A j \in I : i <= j
    IN  IF I = {} THEN Null ELSE SubSeq(s, i0 + 5, RunEnd(s, i0 + 5, Digits))

NoNumber == -1

\* the keys of the entity dict; Null, <<>> and NoNumber stand for a key that is not set
NoEntities ==
    [time |-> Null, pickup_time |-> Null, category |-> Null, time_period |-> Null,
     order_items |-> <<>>, special_instructions |-> Null, destination |-> Null,
     vehicle_type |-> Null, num_passengers |-> NoNumber, text |-> ""]

extract_entities(message) ==
    LET s == Strip(Lower(message))
        time == extract_time(s)
        ordering == Contains(s, "room_service") \/ Contains(s, "servicio a la habitación")
                    \/ Contains(s, "ordenar")
        items == SelectSeq(food_items \o drink_items, LAMBDA it : Contains(s, it))
        transport == Contains(s, "taxi") \/ Contains(s, "transporte") \/ Contains(s, "uber")
                     \/ Contains(s, "carro") \/ Search(W({"ir"}), s)
        destination == Destination(s)
    IN  [NoEntities EXCEPT
           !.time = time,
           !.pickup_time = time,
           !.category = FirstBranch(CategoryPatterns, s),
           !.time_period = FirstBranch(TimePeriodPatterns, s),
           !.order_items = IF ordering THEN items ELSE <<>>,
           !.special_instructions = IF ordering THEN SpecialInstructions(s) ELSE Null,
           !.destination = IF transport /\ Len(destination) > 2 THEN destination ELSE Null,
           !.vehicle_type =
                IF ~transport THEN Null
                ELSE IF Contains(s, "uber") THEN "uber"
                ELSE IF Contains(s, "taxi") THEN "taxi"
                ELSE IF Contains(s, "carro privado") \/ Contains(s, "vehículo privado")
                  THEN "private_car"
                ELSE Null,
           !.num_passengers = IF transport /\ Passengers(s) # Null
                                THEN NumVal(Passengers(s)) ELSE NoNumber]

\* ------------------------------------------------------------------------
\* extract_place_references
\* ------------------------------------------------------------------------
known_places == <<"Mondongos", "Carmen", "El Cielo", "OCI.Mde">>

extract_place_references(text) ==
    SelectSeq(known_places, LAMBDA place : Contains(Lower(text), Lower(place)))

\* ------------------------------------------------------------------------
\* The conversation context (Conversation.context) and the guest
\* ------------------------------------------------------------------------
\* A key that is not in the dict holds Null (strings), <<>> (lists: every list
\* the code stores is non-empty), NoNumber or "" (text).  No statement of the
\* source assigns  awaiting  or  known_entities.
EmptyContext ==
    [current_intent |-> Null, previous_intent |-> Null, awaiting |-> Null,
     known_entities |-> <<>>,
     last_mentioned_destination |-> Null, current_recommendation |-> Null,
     all_recommendations |-> <<>>, intent_history |-> <<>>,
     food_preferences |-> <<>>, recommendation_interests |-> <<>>,
     preferred_transport |-> Null,
     time |-> Null, pickup_time |-> Null, category |-> Null, time_period |-> Null,
     order_items |-> <<>>, special_instructions |-> Null, destination |-> Null,
     vehicle_type |-> Null, num_passengers |-> NoNumber, text |-> ""]

\* Guest.preferences is a JSON text or None
PrefersUber == "{\"transport\": \"uber\"}"

Guests == {[id |-> 1, room_number |-> "101", preferences |-> PrefersUber]}

\* json.loads(guest.preferences).get('transport', 'taxi'), 'taxi' too when parsing fails
PreferredTransport(guest) == IF guest.preferences = PrefersUber THEN "uber" ELSE "taxi"

\* ------------------------------------------------------------------------
\* Replies
\* ------------------------------------------------------------------------
AskDestination == "¿A qué lugar te gustaría ir?"
AskVehicle == "¿Prefieres que sea taxi, Uber o carro privado?"
AskTime == "¿A qué hora te gustaría salir?"
AskSpecificDestination ==
    "¿A dónde te gustaría ir? Necesito saber el destino específico para programar tu transporte."
AskHandlerDestination ==
    "¿A dónde te gustaría ir? Necesito saber el destino para programar tu transporte."
TransportApology ==
    "Lo siento, hubo un problema al programar el transporte. ¿Podrías intentarlo de nuevo?"
ResponderApology ==
    "Lo siento, tuve un problema al procesar tu solicitud. ¿Puedes intentarlo de nuevo?"
Apology == "Lo siento, tuve un problema al procesar tu mensaje. ¿Puedes intentarlo de nuevo?"
\* the text the completion provider returns
Generated == "<completion>"

Confirmation(vehicle_type, destination, request_id) ==
    "He programado tu " \o vehicle_type \o " para ir a " \o destination
    \o ". Tu número de confirmación es " \o Char(Digits, request_id + 1) \o ". "

\* ------------------------------------------------------------------------
\* Collaborators
\* ------------------------------------------------------------------------
\* what goes wrong in a turn:
\*   bad_message  the message is not a string (message.lower() raises)
\*   bad_history  an entry of conversation_history is not a mapping (msg.get raises)
\*   responder    the completion provider raises inside generate_response
\*   store        the database write of schedule_transportation raises
Faults == {"none", "bad_message", "bad_history", "responder", "store"}

\* datetime.now().isoformat()
Now == "now"

\* schedule_transportation: adds the request and returns its id, or rolls back and re-raises
schedule_transportation(requests, guest_id, pickup_time, destination, num_passengers, vehicle_type, fault) ==
    IF fault = "store"
      THEN [raised |-> TRUE, id |-> 0, requests |-> requests]
      ELSE [raised |-> FALSE, id |-> Len(requests) + 1,
            requests |-> Append(requests,
                [guest_id |-> guest_id, pickup_time |-> pickup_time, destination |-> destination,
                 num_passengers |-> num_passengers, vehicle_type |-> vehicle_type])]

\* generate_response: the provider's text, or the apology of its own except clause
generate_response(fault) == IF fault = "responder" THEN ResponderApology ELSE Generated

\* get_personalized_recommendations returns the names it finds, [] on any error
RecommendationLists == {<<>>, <<"Carmen", "El Cielo">>}

ambiguous_terms == {"alla", "ahi", "ahí", "alli", "allí", "para alla", "el lugar"}

\* any(term in text.lower() for term in ambiguous_terms)
HasAmbiguousTerm(text) == \E term \in ambiguous_terms : Contains(Lower(text), term)

\* ------------------------------------------------------------------------
\* The messages of the model
\* ------------------------------------------------------------------------
Messages ==
    {"ir al aeropuerto", "taxi", "a las 9", "9 pm", "vehículo privado", "hola",
     "vamos ahí", "recomienda restaurante", "quiero ordenar hamburguesa", "Carmen",
     "taxi al aeropuerto a las 9", "ir a la batalla", "cuéntame más del segundo",
     "taxi a las 10"}

\* what process_message computes from the text of a message alone
Analyse(message) ==
    [entities |-> extract_entities(message),
     classified |-> classify_intent(message, <<>>),
     places |-> extract_place_references(message),
     ambiguous |-> HasAmbiguousTerm(message)]

RECURSIVE AnalyseAll(_)
\* the function [m \in S |-> Analyse(m)], every value computed once
AnalyseAll(S) ==
    IF S = {} THEN <<>>
    ELSE LET x == CHOOSE y \in S : TRUE IN (x :> Analyse(x)) @@ AnalyseAll(S \ {x})

Analysis == AnalyseAll(Messages)

\* every string a destination slot can hold, given the analysis of the messages
DestinationNames(analysis) ==
    {analysis[m].entities.destination : m \in Messages}
    \cup {known_places[k] : k \in 1..Len(known_places)}
    \cup UNION {{l[k] : k \in 1..Len(l)} : l \in RecommendationLists}

RECURSIVE AmbiguousAmong(_)
\* the function [d \in S |-> HasAmbiguousTerm(d)], every value computed once
AmbiguousAmong(S) ==
    IF S = {} THEN <<>>
    ELSE LET x == CHOOSE y \in S : TRUE IN (x :> HasAmbiguousTerm(x)) @@ AmbiguousAmong(S \ {x})

\* the single element of a singleton set: The({e(x) : x \in {v}}) computes v once
The(S) == CHOOSE x \in S : TRUE

\* the text functions tabulated over the messages and destinations of the model
TextTables ==
    The({The({[analysis |-> a, ambiguous |-> AmbiguousAmong(d)] : d \in {DestinationNames(a)}})
            : a \in {Analysis}})

\* TextTables: what the text functions return; set at the start, never changed
VARIABLE nlp

\* ------------------------------------------------------------------------
\* handle_transportation
\* ------------------------------------------------------------------------
\* the result of the handler: its reply, the context and the store as it leaves
\* them, and whether and with what it called schedule_transportation
handle_transportation(guest, entities, context, requests, fault) ==
    LET ambiguous == entities.destination # Null /\ nlp.ambiguous[entities.destination]
        fromContext == IF context.last_mentioned_destination # Null
                         THEN context.last_mentioned_destination
                         ELSE context.current_recommendation
        destination == IF ambiguous \/ entities.destination = Null
                         THEN fromContext ELSE entities.destination
        pickup_time == IF entities.time # Null THEN entities.time ELSE Now
        stored == IF context.vehicle_type # Null THEN context.vehicle_type
                  ELSE context.preferred_transport
        vehicle_type == IF entities.vehicle_type # Null THEN entities.vehicle_type
                        ELSE IF stored # Null THEN stored
                        ELSE IF guest.preferences # Null THEN PreferredTransport(guest)
                        ELSE Null
        num_passengers == IF entities.num_passengers # NoNumber THEN entities.num_passengers ELSE 1
        context2 == [context EXCEPT !.last_mentioned_destination = destination,
                                    !.vehicle_type = vehicle_type]
        sched == schedule_transportation(requests, guest.id, pickup_time, destination,
                                         num_passengers, vehicle_type, fault)
        quiet == [response |-> "", context |-> context, requests |-> requests,
                  invoked |-> FALSE, failed |-> FALSE, request_id |-> 0]
    IN  IF destination = Null
          THEN [quiet EXCEPT !.response = IF ambiguous THEN AskSpecificDestination
                                          ELSE AskHandlerDestination]
        ELSE IF sched.raised \/ sched.id = 0
          THEN [quiet EXCEPT !.response = TransportApology, !.context = context2,
                             !.invoked = TRUE, !.failed = TRUE]
        ELSE [response |-> Confirmation(vehicle_type, destination, sched.id),
              context |-> context2, requests |-> sched.requests,
              invoked |-> TRUE, failed |-> FALSE, request_id |-> sched.id]

\* ------------------------------------------------------------------------
\* process_message
\* ------------------------------------------------------------------------
\* the entities merged into the context without their pickup_time
MergeEntitiesWithoutPickupTime(c, e) ==
    [c EXCEPT !.time = IF e.time # Null THEN e.time ELSE @,
              !.category = IF e.category # Null THEN e.category ELSE @,
              !.time_period = IF e.time_period # Null THEN e.time_period ELSE @,
              !.order_items = IF e.order_items # <<>> THEN e.order_items ELSE @,
              !.special_instructions =
                    IF e.special_instructions # Null THEN e.special_instructions ELSE @,
              !.destination = IF e.destination # Null THEN e.destination ELSE @,
              !.vehicle_type = IF e.vehicle_type # Null THEN e.vehicle_type ELSE @,
              !.num_passengers = IF e.num_passengers # NoNumber THEN e.num_passengers ELSE @,
              !.text = e.text]

\* for key, value in entities.items(): updated_context[key] = value
MergeEntities(c, e) ==
    [c EXCEPT !.time = IF e.time # Null THEN e.time ELSE @,
              !.pickup_time = IF e.pickup_time # Null THEN e.pickup_time ELSE @,
              !.category = IF e.category # Null THEN e.category ELSE @,
              !.time_period = IF e.time_period # Null THEN e.time_period ELSE @,
              !.order_items = IF e.order_items # <<>> THEN e.order_items ELSE @,
              !.special_instructions =
                    IF e.special_instructions # Null THEN e.special_instructions ELSE @,
              !.destination = IF e.destination # Null THEN e.destination ELSE @,
              !.vehicle_type = IF e.vehicle_type # Null THEN e.vehicle_type ELSE @,
              !.num_passengers = IF e.num_passengers # NoNumber THEN e.num_passengers ELSE @,
              !.text = e.text]

\* the destination a transportation turn falls back to when the message gives none
FallbackDestination(c) ==
    IF c.destination # Null THEN c.destination
    ELSE IF c.last_mentioned_destination # Null THEN c.last_mentioned_destination
    ELSE IF c.current_recommendation # Null THEN c.current_recommendation
    ELSE IF c.all_recommendations # <<>> THEN c.all_recommendations[1]
    ELSE Null

\* the entities of a transportation turn after they are completed from the context
ResolveSlots(e, c) ==
    LET inherited == IF c.time # Null THEN c.time ELSE c.pickup_time
    IN  [e EXCEPT
           !.destination = IF @ # Null THEN @ ELSE FallbackDestination(c),
           !.vehicle_type = IF @ # Null THEN @ ELSE c.vehicle_type,
           !.pickup_time = IF @ # Null THEN @
                           ELSE IF e.time # Null THEN e.time ELSE inherited,
           !.time = IF @ # Null THEN @
                    ELSE IF e.pickup_time # Null THEN e.pickup_time ELSE inherited]

required_fields == <<"destination", "vehicle_type", "pickup_time">>

\* missing_fields computed without the pickup time
MissingFieldsWithoutTime(e) ==
    SelectSeq(<<"destination", "vehicle_type">>, LAMBDA field : e[field] = Null)

\* missing_fields, in the order of required_fields
MissingFields(e) == SelectSeq(required_fields, LAMBDA field : e[field] = Null)

\* the question for the last missing field
ClarifyingQuestionForLast(missing) ==
    IF missing[Len(missing)] = "destination" THEN AskDestination
    ELSE IF missing[Len(missing)] = "vehicle_type" THEN AskVehicle
    ELSE AskTime

\* the question for the first missing field
ClarifyingQuestion(missing) ==
    IF missing[1] = "destination" THEN AskDestination
    ELSE IF missing[1] = "vehicle_type" THEN AskVehicle
    ELSE AskTime

\* list.append(item) unless the item is in the list
AppendNew(list, item) ==
    IF \E k \in 1..Len(list) : list[k] = item THEN list ELSE Append(list, item)

RECURSIVE AppendAllNew(_, _)
AppendAllNew(list, items) ==
    IF items = <<>> THEN list ELSE AppendAllNew(AppendNew(list, Head(items)), Tail(items))

\* the end of the transportation branch: the question for a missing field, or
\* the reply of the handler
TransportationReply(guest, resolved, updated, requests, fault) ==
    IF MissingFields(resolved) # <<>>
      THEN [response |-> ClarifyingQuestion(MissingFields(resolved)), context |-> updated,
            requests |-> requests, invoked |-> FALSE, failure |-> "none",
            resolved |-> resolved, request_id |-> 0]
      ELSE The({[response |-> h.response, context |-> h.context, requests |-> h.requests,
                 invoked |-> h.invoked, failure |-> IF h.failed THEN "store" ELSE "none",
                 resolved |-> resolved, request_id |-> h.request_id]
                  : h \in {handle_transportation(guest, resolved, updated, requests, fault)}})

\* the transportation branch of process_message: the entities are merged into
\* the context, completed from it and merged again
TransportationTurn(guest, entities, c, requests, fault) ==
    The({The({The({TransportationReply(guest, resolved, updated, requests, fault)
                      : updated \in {MergeEntities(merged, resolved)}})
                 : resolved \in {ResolveSlots(entities, merged)}})
            : merged \in {MergeEntities(c, entities)}})

\* the bookkeeping of process_message after the responder has answered
PostProcess(c, intent, entities, recommendations) ==
    IF intent = "room_service" /\ entities.order_items # <<>>
      THEN [c EXCEPT !.food_preferences = AppendAllNew(@, entities.order_items)]
    ELSE IF intent = "recommendation" /\ entities.category # Null
      THEN [c EXCEPT !.recommendation_interests = AppendNew(@, entities.category),
                     !.current_recommendation =
                          IF recommendations # <<>> THEN recommendations[1] ELSE @,
                     !.all_recommendations =
                          IF recommendations # <<>> THEN recommendations ELSE @]
    ELSE c

\* the new intent stored without keeping the earlier one
ShiftIntentDropsPrevious(context, classified) == [context EXCEPT !.current_intent = classified]

\* store the previous intent, then the intent of this message
ShiftIntent(context, classified) ==
    [context EXCEPT
       !.previous_intent = IF context.current_intent # Null THEN context.current_intent ELSE @,
       !.current_intent = classified]

\* the context once the intent of the turn is settled: the intents are shifted,
\* a place named in the message is remembered, and a message with a locative
\* term keeps the previous intent
SettleIntent(message, context) ==
    LET classified == nlp.analysis[message].classified.intent
        shifted == ShiftIntent(context, classified)
        places == nlp.analysis[message].places
        placed == IF places = <<>> THEN shifted
                  ELSE [shifted EXCEPT
                          !.last_mentioned_destination = places[1],
                          !.previous_intent = IF classified = "question"
                                                THEN "recommendation" ELSE @]
        intent == IF nlp.analysis[message].ambiguous /\ placed.previous_intent # Null
                    THEN placed.previous_intent ELSE classified
    IN  [placed EXCEPT !.current_intent = intent]

\* the try block after the intent is settled in c, the copy of the context
TryBody(message, guest, fault, recommendations, context, requests, entities, c) ==
    LET intent == c.current_intent
        tracked == [c EXCEPT !.intent_history = Append(@, intent)]
        aliased == [context EXCEPT
                      !.intent_history = IF @ # <<>> THEN Append(@, intent) ELSE @]
        base == [raised |-> FALSE, response |-> "", context |-> context, caller |-> context,
                 requests |-> requests,
                 classified |-> nlp.analysis[message].classified.intent, intent |-> intent,
                 path |-> "none", failure |-> "none", invoked |-> FALSE,
                 resolved |-> NoEntities, request_id |-> 0]
    IN  IF intent = "transportation"
          THEN The({[base EXCEPT !.response = t.response, !.context = t.context,
                                 !.requests = t.requests, !.path = "transportation",
                                 !.failure = t.failure, !.invoked = t.invoked,
                                 !.resolved = t.resolved, !.request_id = t.request_id]
                      : t \in {TransportationTurn(guest, entities, c, requests, fault)}})
        ELSE IF fault = "bad_history"
          THEN [base EXCEPT !.raised = TRUE, !.failure = "bad_history", !.caller = aliased,
                            !.path = "default"]
        ELSE [base EXCEPT !.response = generate_response(fault),
                          !.context = PostProcess(tracked, intent, entities, recommendations),
                          !.path = "default",
                          !.failure = IF fault = "responder" THEN "responder" ELSE "none"]

\* the try block of process_message.  raised: an exception leaves the block;
\* caller: the dict the caller passed, whose lists context.copy() shares with
\* updated_context, as the block leaves it
TryBlock(message, guest, fault, recommendations, context, requests) ==
    IF fault = "bad_message"
      THEN [raised |-> TRUE, response |-> "", context |-> context, caller |-> context,
            requests |-> requests, classified |-> Null, intent |-> Null,
            path |-> "none", failure |-> "bad_message", invoked |-> FALSE,
            resolved |-> NoEntities, request_id |-> 0]
      ELSE The({TryBody(message, guest, fault, recommendations, context, requests, entities, c)
                  : entities \in {[nlp.analysis[message].entities EXCEPT !.text = message]},
                    c \in {SettleIntent(message, context)}})

\* an except clause that lets the error through
ExceptClausePropagates(r) == r

\* the except clause of process_message: the apology and the dict the caller passed
ExceptClause(r) ==
    IF r.raised
      THEN [r EXCEPT !.raised = FALSE, !.response = Apology, !.context = r.caller]
      ELSE r

process_message(message, guest, fault, recommendations, context, requests) ==
    The({ExceptClause(r)
            : r \in {TryBlock(message, guest, fault, recommendations, context, requests)}})

\* ------------------------------------------------------------------------
\* State
\* ------------------------------------------------------------------------
VARIABLES
    ctx,        \* Conversation.context of the guest's conversation
    requests,   \* the TransportationRequest rows, in insertion order
    orders,     \* the RoomServiceOrder rows, in insertion order
    guest,      \* the Guest of the conversation
    turn,       \* number of turns handled so far
    pre,        \* history: ctx as it was before the last turn
    last,       \* history: the input and the outcome of the last turn
    fill,       \* history: how far the turns so far follow the slot-filling script
    log,        \* history: the intent of every turn, while no turn has raised
    clean,      \* history: no turn has raised so far
    cls,        \* an application of classify_intent: its arguments and its result
    ext,        \* an application of extract_entities: its argument and its result
    conv,       \* the stored Conversation row: conversation_history and context
    flight,     \* send_message: the requests being handled, one per client
    sends,      \* history: the send_message requests that have stored their turn
    clock,      \* the time of datetime.utcnow(), one tick per stored turn
    ord,        \* an application of place_order: its arguments and its result
    faq         \* an application of get_faq_response: its arguments and its result

vars == <<ctx, requests, orders, guest, turn, nlp, pre, last, fill, log, clean, cls, ext, conv, flight, sends, clock, ord, faq>>

NoTurn ==
    [message |-> "", failure |-> "none", response |-> "", raised |-> FALSE,
     classified |-> Null, intent |-> Null, path |-> "none", invoked |-> FALSE,
     resolved |-> NoEntities, request_id |-> 0, requests_before |-> 0,
     orders_before |-> 0, recommendations |-> <<>>]

Pending == [intent |-> Null, confidence |-> 0]

NoProbe == [message |-> "", context |-> <<>>, result |-> Pending]

\* no application of get_faq_response
NoQuestion ==
    [question |-> "", data |-> <<>>, answer |-> "", step |-> "none", topic |-> 0,
     done |-> FALSE]

\* no application of place_order
NoOrder ==
    [guest_id |-> 0, items |-> <<>>, menu |-> <<>>, raised |-> FALSE, order_id |-> 0,
     done |-> FALSE]

\* config.MAX_CONVERSATION_HISTORY
MAX_CONVERSATION_HISTORY == 20

\* the requests to /api/send-message that can be in progress at once for one
\* (guest, session) conversation
Clients == {1, 2}

\* Conversation(conversation_history=json.dumps([]), context=json.dumps({}))
NewConversation == [history |-> <<>>, context |-> EmptyContext]

\* a client with no request being handled
Idle ==
    [pc |-> "idle", message |-> "", history |-> <<>>, passed |-> <<>>,
     context |-> EmptyContext, response |-> "", updated |-> EmptyContext,
     expired |-> FALSE, loaded |-> 0]

InitConversation ==
    /\ ctx = EmptyContext
    /\ requests = <<>>
    /\ orders = <<>>
    /\ guest \in Guests
    /\ turn = 0
    /\ nlp = TextTables
    /\ pre = EmptyContext
    /\ last = NoTurn
    /\ fill = 0
    /\ log = <<>>
    /\ clean = TRUE
    /\ conv = NewConversation
    /\ flight = [c \in Clients |-> Idle]
    /\ sends = <<>>
    /\ clock = 0

\* no application of extract_entities
NoExtraction ==
    [message |-> "", kind |-> "none", expect |-> Null, result |-> NoEntities, done |-> FALSE]

Init == InitConversation /\ cls = NoProbe /\ ext = NoExtraction /\ ord = NoOrder /\ faq = NoQuestion

\* the message carries the given required slot and neither of the other two
OnlySlot(message, slot) ==
    \A field \in {"destination", "vehicle_type", "pickup_time"} :
        (nlp.analysis[message].entities[field] # Null) <=> (field = slot)

\* what get_personalized_recommendations can return in a turn: it is called
\* only for a message with a category
RecommendationsFor(message) ==
    IF nlp.analysis[message].entities.category # Null THEN RecommendationLists ELSE {<<>>}

\* ------------------------------------------------------------------------
\* send_message: one turn of the conversation
\* ------------------------------------------------------------------------
Turn ==
    /\ turn < MaxTurns
    /\ \E message \in Messages, fault \in Faults :
       \E recommendations \in RecommendationsFor(message) :
       \E r \in {process_message(message, guest, fault, recommendations, ctx, requests)} :
             /\ ctx' = r.context
             /\ requests' = r.requests
             /\ pre' = ctx
             /\ last' = [message |-> IF fault = "bad_message" THEN "" ELSE message,
                         failure |-> r.failure, response |-> r.response,
                         raised |-> r.raised, classified |-> r.classified,
                         intent |-> r.intent, path |-> r.path, invoked |-> r.invoked,
                         resolved |-> r.resolved, request_id |-> r.request_id,
                         requests_before |-> Len(requests),
                         orders_before |-> Len(orders),
                         recommendations |-> recommendations]
             /\ fill' = IF fill = turn /\ fill < Len(required_fields) /\ r.failure = "none"
                           /\ fault # "bad_message"
                           /\ OnlySlot(message, required_fields[fill + 1])
                          THEN fill + 1 ELSE -1
             /\ clean' = (clean /\ r.failure \notin {"bad_message", "bad_history"})
             /\ log' = IF clean' THEN Append(log, r.intent) ELSE <<>>
    /\ turn' = turn + 1
    /\ UNCHANGED <<orders, guest, nlp, cls, ext, conv, flight, sends, clock, ord, faq>>

Next == Turn

Spec == Init /\ [][Next]_vars

\* ------------------------------------------------------------------------
\* classify_intent applied to a message and an optional context
\* ------------------------------------------------------------------------
ClassifierContexts ==
    {<<>>} \cup
    {<<[EmptyContext EXCEPT !.current_intent = ci, !.destination = d, !.pickup_time = p]>> :
        ci \in {Null, "greeting", "thanks", "transportation", "recommendation"},
        d \in {Null, "aeropuerto"}, p \in {Null, "09:00"}}

\* the messages of the conversation and messages on which several intents
\* score: a tie, and scores on both sides of the cap of the confidence
ClassifierMessages ==
    Messages \cup
    {"hola gracias", "taxi uber carro viaje", "taxi uber carro viaje traslado",
     "recomienda restaurante bar café museo taxi transporte uber carro viaje traslado"}

InitClassify ==
    /\ InitConversation
    /\ faq = NoQuestion
    /\ ext = NoExtraction
    /\ ord = NoOrder
    /\ cls \in {[message |-> m, context |-> c, result |-> Pending] :
                   m \in ClassifierMessages, c \in ClassifierContexts}

Classify ==
    /\ cls.result = Pending
    /\ cls' = [cls EXCEPT !.result = classify_intent(cls.message, cls.context)]
    /\ UNCHANGED <<ctx, requests, orders, guest, turn, nlp, pre, last, fill, log, clean, ext, conv, flight, sends, clock, ord, faq>>

NextClassify == Classify

SpecClassify == InitClassify /\ [][NextClassify]_vars

\* ------------------------------------------------------------------------
\* extract_entities applied to a message
\* ------------------------------------------------------------------------
\* the time of day a message states, written HH:MM (what C11 expects back)
TimeOfDay(hour, minutes) ==
    Char(Digits, (hour \div 10) + 1) \o Char(Digits, (hour % 10) + 1) \o ":" \o minutes

\* the hour on the 24-hour clock that an hour with an am/pm marker stands for
Hour24(hour, marker) ==
    IF marker = "pm" /\ hour < 12 THEN hour + 12
    ELSE IF marker = "am" /\ hour = 12 THEN 0
    ELSE hour

ProbeHours == <<"1", "9", "10", "12">>

\* messages that state a clock time H[:MM] with an optional am/pm marker, each
\* with the time it states
TimeProbes ==
    {[message |-> before \o ProbeHours[h] \o (IF mm = "" THEN "" ELSE ":" \o mm)
                         \o (IF marker = "" THEN "" ELSE " " \o marker),
      kind |-> "time",
      expect |-> TimeOfDay(Hour24(NumVal(ProbeHours[h]), marker), IF mm = "" THEN "00" ELSE mm),
      result |-> NoEntities, done |-> FALSE] :
        before \in {"", "a las ", "Necesito un taxi a las "},
        h \in 1..Len(ProbeHours), mm \in {"", "00", "30"}, marker \in {"", "am", "pm"}}

\* the sentences a landmark is put in.  trigger: the sentence has one of the
\* words that open the transportation block; word: the landmark stands as a
\* whole word; other: a second landmark in the sentence
LandmarkFrames ==
    {[before |-> "quiero ir al ", after |-> "", trigger |-> TRUE, word |-> TRUE, other |-> Null],
     [before |-> "Necesito un taxi para el ", after |-> " mañana", trigger |-> TRUE,
      word |-> TRUE, other |-> Null],
     [before |-> "quiero ir a la zona del ", after |-> "", trigger |-> TRUE, word |-> TRUE,
      other |-> Null],
     [before |-> "pide un uber del museo al ", after |-> "", trigger |-> TRUE, word |-> TRUE,
      other |-> "museo"],
     [before |-> "vamos al ", after |-> "", trigger |-> FALSE, word |-> TRUE, other |-> Null],
     [before |-> "quiero ir a los ", after |-> "s", trigger |-> TRUE, word |-> FALSE,
      other |-> Null]}

\* the place of a name in common_destinations
LandmarkIndex(name) == CHOOSE k \in 1..Len(common_destinations) : common_destinations[k] = name

\* messages that contain a landmark, each with the landmark; first: the
\* landmark of the message that comes first in common_destinations
LandmarkProbes ==
    {[message |-> f.before \o common_destinations[k] \o f.after,
      kind |-> "landmark",
      expect |-> [landmark |-> common_destinations[k], trigger |-> f.trigger, word |-> f.word,
                  first |-> IF f.other # Null /\ LandmarkIndex(f.other) < k
                              THEN f.other ELSE common_destinations[k]],
      result |-> NoEntities, done |-> FALSE] :
        f \in LandmarkFrames, k \in 1..Len(common_destinations)}

\* sentences around a clock time that hold the letters am or pm elsewhere:
\* in 'vamos', in 'hamburguesa', in the marker of a second clock time
MarkerFrames ==
    {[before |-> "a las ", after |-> ""],
     [before |-> "vamos a las ", after |-> ""],
     [before |-> "quiero una hamburguesa a las ", after |-> ""],
     [before |-> "salgo a las ", after |-> " y vuelvo a las 3 pm"]}

\* messages with one leading clock time, each with the hour it states
MarkerProbes ==
    {[message |-> f.before \o ProbeHours[h] \o (IF marker = "" THEN "" ELSE " " \o marker)
                           \o f.after,
      kind |-> "marker",
      expect |-> TimeOfDay(Hour24(NumVal(ProbeHours[h]), marker), "00"),
      result |-> NoEntities, done |-> FALSE] :
        f \in MarkerFrames, h \in 1..Len(ProbeHours), marker \in {"", "am", "pm"}}

\* one- and two-digit numbers the clock-time pattern can capture
ProbeNumbers == <<"0", "4", "12", "13", "23", "24", "25", "60", "99">>

\* sentences around a number.  clock: the number is given as a time of day
NumberFrames ==
    {[before |-> "a las ", after |-> "", clock |-> TRUE],
     [before |-> "taxi a las ", after |-> "", clock |-> TRUE],
     [before |-> "taxi para ", after |-> " personas", clock |-> FALSE],
     [before |-> "habitación ", after |-> "", clock |-> FALSE]}

\* messages with a number, each with whether the number is a clock hour
NumberProbes ==
    {[message |-> f.before \o ProbeNumbers[n] \o (IF marker = "" THEN "" ELSE " " \o marker)
                           \o f.after,
      kind |-> "number",
      expect |-> [hour |-> NumVal(ProbeNumbers[n]),
                  clock |-> f.clock /\ NumVal(ProbeNumbers[n]) <= 23],
      result |-> NoEntities, done |-> FALSE] :
        f \in NumberFrames, n \in 1..Len(ProbeNumbers), marker \in {"", "am", "pm"}}

InitExtract ==
    /\ InitConversation
    /\ faq = NoQuestion
    /\ cls = NoProbe
    /\ ord = NoOrder
    /\ ext \in TimeProbes \cup LandmarkProbes \cup MarkerProbes \cup NumberProbes

Extract ==
    /\ ext.kind # "none"
    /\ ~ext.done
    /\ ext' = [ext EXCEPT !.result = extract_entities(ext.message), !.done = TRUE]
    /\ UNCHANGED <<ctx, requests, orders, guest, turn, nlp, pre, last, fill, log, clean, cls, conv, flight, sends, clock, ord, faq>>

NextExtract == Extract

SpecExtract == InitExtract /\ [][NextExtract]_vars

\* ------------------------------------------------------------------------
\* send_message: the requests of several clients for one conversation
\* ------------------------------------------------------------------------
\* turns already stored when the requests under study arrive
MaxStored == 10

\* requests received after that
MaxSends == 3

\* one message for the default path, one that books on the transportation path
SendMessages == {"hola", "taxi al aeropuerto a las 9"}

\* an entry of the history: role, content and the utcnow() of the store
Entry(role, content, timestamp) ==
    [role |-> role, content |-> content, timestamp |-> timestamp]

\* while len(conversation_history) > MAX_CONVERSATION_HISTORY: pop(0)
RECURSIVE KeepWithinLimits(_)
KeepWithinLimits(history) ==
    IF Len(history) > MAX_CONVERSATION_HISTORY THEN KeepWithinLimits(Tail(history))
    ELSE history

\* the history append and the two column writes of send_message
StoreTurn(base, message, response, updated, timestamp) ==
    [history |-> base \o <<Entry("user", message, timestamp),
                           Entry("assistant", response, timestamp)>>,
     context |-> updated]

\* the row after k requests with the message 'hola', handled one after another
RECURSIVE StoredAfter(_, _)
StoredAfter(k, g) ==
    IF k = 0 THEN NewConversation
    ELSE The({The({StoreTurn(c.history, "hola", r.response, r.context, k)
                     : r \in {process_message("hola", g, "none", <<>>, c.context, <<>>)}})
                : c \in {StoredAfter(k - 1, g)}})

InitSend ==
    /\ ctx = EmptyContext
    /\ requests = <<>>
    /\ orders = <<>>
    /\ guest \in Guests
    /\ turn = 0
    /\ nlp = TextTables
    /\ pre = EmptyContext
    /\ last = NoTurn
    /\ fill = 0
    /\ log = <<>>
    /\ clean = TRUE
    /\ cls = NoProbe
    /\ ext = NoExtraction
    /\ \E k \in 0..MaxStored :
          /\ conv = StoredAfter(k, guest)
          /\ clock = k
    /\ flight = [c \in Clients |-> Idle]
    /\ sends = <<>>
    /\ ord = NoOrder
    /\ faq = NoQuestion

\* requests received so far
Received == Len(sends) + Cardinality({c \in Clients : flight[c].pc # "idle"})

\* Conversation.query...first(): the row is loaded into the request's session
Receive(c) ==
    /\ flight[c].pc = "idle"
    /\ Received < MaxSends
    /\ \E message \in SendMessages :
          flight' = [flight EXCEPT ![c] =
                        [Idle EXCEPT !.pc = "loaded", !.message = message,
                                     !.history = conv.history, !.passed = conv.history,
                                     !.context = conv.context, !.loaded = clock]]
    /\ UNCHANGED <<ctx, requests, orders, guest, turn, nlp, pre, last, fill, log, clean, cls, ext, conv, sends, clock, ord, faq>>

\* process_message on what was loaded.  passed: the list json.loads gave it,
\* which the default path trims; expired: schedule_transportation committed,
\* so the session reloads the row at its next attribute access
Process(c) ==
    /\ flight[c].pc = "loaded"
    /\ \E r \in {process_message(flight[c].message, guest, "none", <<>>, flight[c].context, requests)} :
          /\ requests' = r.requests
          /\ flight' = [flight EXCEPT ![c] =
                           [@ EXCEPT !.pc = "processed", !.response = r.response,
                                     !.updated = r.context,
                                     !.passed = IF r.path = "default"
                                                  THEN KeepWithinLimits(@) ELSE @,
                                     !.expired = Len(r.requests) > Len(requests)]]
    /\ UNCHANGED <<ctx, orders, guest, turn, nlp, pre, last, fill, log, clean, cls, ext, conv, sends, clock, ord, faq>>

\* the history is parsed again from the row, the two entries are appended, and
\* history and context are written back and committed
Store(c) ==
    /\ flight[c].pc = "processed"
    /\ conv' = StoreTurn(IF flight[c].expired THEN conv.history ELSE flight[c].history,
                         flight[c].message, flight[c].response, flight[c].updated,
                         clock + 1)
    /\ clock' = clock + 1
    /\ sends' = Append(sends, [id |-> clock + 1, message |-> flight[c].message,
                               response |-> flight[c].response,
                               loaded |-> flight[c].loaded,
                               before |-> flight[c].context,
                               after |-> flight[c].updated])
    /\ flight' = [flight EXCEPT ![c] = Idle]
    /\ UNCHANGED <<ctx, requests, orders, guest, turn, nlp, pre, last, fill, log, clean, cls, ext, ord, faq>>

NextSend == \E c \in Clients : Receive(c) \/ Process(c) \/ Store(c)

SpecSend == InitSend /\ [][NextSend]_vars

\* ------------------------------------------------------------------------
\* room_service.place_order applied to a guest id and a list of item names
\* ------------------------------------------------------------------------
\* default_menu of get_menu, the categories one after another: what
\* all_menu_items holds when data/menu.json does not exist
default_menu ==
    <<[name |-> "Desayuno Americano", price |-> 25000],
      [name |-> "Desayuno Continental", price |-> 20000],
      [name |-> "Huevos Benedictinos", price |-> 28000],
      [name |-> "Risotto de Champiñones", price |-> 35000],
      [name |-> "Salmón a la Parrilla", price |-> 48000],
      [name |-> "Filete Mignon", price |-> 55000],
      [name |-> "Club Sándwich", price |-> 32000],
      [name |-> "Hamburguesa Aramé", price |-> 38000],
      [name |-> "Sándwich Vegetariano", price |-> 28000],
      [name |-> "Sopa del Día", price |-> 22000],
      [name |-> "Ensalada César", price |-> 26000],
      [name |-> "Ensalada de Quinoa", price |-> 28000],
      [name |-> "Tiramisú", price |-> 18000],
      [name |-> "Cheesecake", price |-> 20000],
      [name |-> "Selección de Frutas", price |-> 15000],
      [name |-> "Selección de Jugos Naturales", price |-> 12000],
      [name |-> "Café Especial Colombiano", price |-> 8000],
      [name |-> "Limonada de Coco", price |-> 14000],
      [name |-> "Cerveza Local", price |-> 15000]>>

\* what get_menu can return: the default menu, or {} when loading fails
Menus == {default_menu, <<>>}

\* the exact lookup in menu_lookup, else the first entry of menu_lookup whose
\* name contains the item name or is contained in it; 0: no matching item
\* (the names of the menu differ in lower case, so menu_lookup keeps them all)
MatchingItem(menu, item_name) ==
    LET lower == Lower(item_name)
        exact == {k \in 1..Len(menu) : Lower(menu[k].name) = lower}
        partial == {k \in 1..Len(menu) : \/ Contains(Lower(menu[k].name), lower)
                                          \/ Contains(lower, Lower(menu[k].name))}
    IN  IF exact # {} THEN CHOOSE k \in exact : TRUE
        ELSE IF partial # {} THEN CHOOSE k \in partial : \A j \in partial : k <= j
        ELSE 0

\* a loop body that leaves an unrecognized item out of the order
AddItemSkippingUnknown(menu, acc, item_name) ==
    The({IF m # 0
           THEN [order_items |-> Append(acc.order_items,
                                        [name |-> menu[m].name, price |-> menu[m].price,
                                         quantity |-> 1]),
                 total_price |-> acc.total_price + menu[m].price]
           ELSE acc
           : m \in {MatchingItem(menu, item_name)}})

\* the body of the loop over items: the line of a matched item adds its price,
\* an unrecognized item is included under its own name at price 0
AddItem(menu, acc, item_name) ==
    The({IF m # 0
           THEN [order_items |-> Append(acc.order_items,
                                        [name |-> menu[m].name, price |-> menu[m].price,
                                         quantity |-> 1]),
                 total_price |-> acc.total_price + menu[m].price]
           ELSE [order_items |-> Append(acc.order_items,
                                        [name |-> item_name, price |-> 0, quantity |-> 1]),
                 total_price |-> acc.total_price]
           : m \in {MatchingItem(menu, item_name)}})

RECURSIVE AddItems(_, _, _)
AddItems(menu, acc, items) ==
    IF items = <<>> THEN acc
    ELSE The({AddItems(menu, next, Tail(items)) : next \in {AddItem(menu, acc, Head(items))}})

\* place_order(guest_id, items, special_instructions): the rows after the call,
\* the id returned, and whether the call raised (guest not found)
place_order(rows, guests, guest_id, items, special_instructions, menu) ==
    IF \A g \in guests : g.id # guest_id
      THEN [raised |-> TRUE, orders |-> rows, order_id |-> 0]
      ELSE The({[raised |-> FALSE,
                 orders |-> Append(rows, [guest_id |-> guest_id,
                                          room_number |-> (CHOOSE g \in guests : g.id = guest_id).room_number,
                                          order_items |-> t.order_items,
                                          special_instructions |-> special_instructions,
                                          total_price |-> t.total_price]),
                 order_id |-> Len(rows) + 1]
                  : t \in {AddItems(menu, [order_items |-> <<>>, total_price |-> 0], items)}})

\* longest list of items ordered
MaxItems == 2

\* item names: exact, in another case, part of a menu name, containing a menu
\* name, and not on the menu
ItemNames == {"Tiramisú", "CHEESECAKE", "hamburguesa", "café", "sopa del día con pan", "pizza"}

RECURSIVE ItemLists(_)
ItemLists(n) ==
    IF n = 0 THEN {<<>>}
    ELSE ItemLists(n - 1) \cup {Append(l, i) : l \in {x \in ItemLists(n - 1) : Len(x) = n - 1}, i \in ItemNames}

\* the guest ids an order is placed for: the guest of the hotel and an id
\* that no Guest row has
GuestIds == {1, 2}

InitOrder ==
    /\ InitConversation
    /\ faq = NoQuestion
    /\ cls = NoProbe
    /\ ext = NoExtraction
    /\ ord \in {[NoOrder EXCEPT !.guest_id = g, !.items = items, !.menu = menu] :
                  g \in GuestIds, items \in ItemLists(MaxItems), menu \in Menus}

PlaceOrder ==
    /\ ~ord.done
    /\ \E r \in {place_order(orders, Guests, ord.guest_id, ord.items, "", ord.menu)} :
          /\ orders' = r.orders
          /\ ord' = [ord EXCEPT !.raised = r.raised, !.order_id = r.order_id, !.done = TRUE]
    /\ UNCHANGED <<ctx, requests, guest, turn, nlp, pre, last, fill, log, clean, cls, ext, conv, flight, sends, clock, faq>>

NextOrder == PlaceOrder

SpecOrder == InitOrder /\ [][NextOrder]_vars

\* ------------------------------------------------------------------------
\* faq_service.get_faq_response applied to a question
\* ------------------------------------------------------------------------
\* length of the run of equal characters from a[i] and b[j] on
RECURSIVE RunLength(_, _, _, _, _, _)
RunLength(a, i, ahi, b, j, bhi) ==
    IF i > ahi \/ j > bhi THEN 0
    ELSE IF Char(a, i) # Char(b, j) THEN 0
    ELSE 1 + RunLength(a, i + 1, ahi, b, j + 1, bhi)

\* SequenceMatcher.find_longest_match: the longest block common to a[alo..ahi]
\* and b[blo..bhi]; of the longest, the one that starts earliest in a, then in b
LongestMatch(a, alo, ahi, b, blo, bhi) ==
    The({CHOOSE r \in runs :
            \A q \in runs : \/ q[3] < r[3]
                            \/ q[3] = r[3] /\ (r[1] < q[1] \/ (r[1] = q[1] /\ r[2] <= q[2]))
           : runs \in {{<<i, j, RunLength(a, i, ahi, b, j, bhi)>> : i \in alo..ahi, j \in blo..bhi}}})

\* SequenceMatcher.get_matching_blocks: the characters in the longest block and
\* in the blocks found in the same way to its left and to its right
RECURSIVE MatchingChars(_, _, _, _, _, _)
MatchingChars(a, alo, ahi, b, blo, bhi) ==
    IF alo > ahi \/ blo > bhi THEN 0
    ELSE The({IF m[3] = 0 THEN 0
              ELSE m[3] + MatchingChars(a, alo, m[1] - 1, b, blo, m[2] - 1)
                        + MatchingChars(a, m[1] + m[3], ahi, b, m[2] + m[3], bhi)
                : m \in {LongestMatch(a, alo, ahi, b, blo, bhi)}})

\* calculate_similarity: SequenceMatcher(None, query.lower(), reference.lower()).ratio(),
\* the fraction 2.0 * matches / length kept as its two numbers
calculate_similarity(query, reference) ==
    The({[matches |-> MatchingChars(a, 1, Len(a), b, 1, Len(b)), length |-> Len(a) + Len(b)]
           : a \in {Lower(query)}, b \in {Lower(reference)}})

\* similarity > best_similarity
Greater(x, y) == x.matches * y.length > y.matches * x.length

\* a threshold that lets 0.6 itself through
AboveThresholdOrEqual(x) == 2 * x.matches * 10 >= 6 * x.length

\* similarity > 0.6
AboveThreshold(x) == 2 * x.matches * 10 > 6 * x.length

\* the key terms of the second step, in the order of the source
key_terms ==
    <<"desayuno", "breakfast", "wifi", "internet", "piscina", "pool", "spa", "gimnasio",
      "gym", "checkout", "salida", "estacionamiento", "parking", "restaurante", "restaurant",
      "servicio a la habitación", "room service", "negocio", "business">>

FrontDesk == "Lo siento, no tengo información específica sobre esa pregunta. Por favor, contacte a la recepción marcando 0 desde el teléfono de su habitación o consulte a Lina sobre otros temas como servicios del hotel, recomendaciones locales o reservas."

\* FAQ tables as load_faq_data returns them, topics in dict order: topics of
\* DEFAULT_FAQS with their short questions, and a table of data/faq.json
FaqTables ==
    {<<[category |-> "wifi", questions |-> <<"¿El WiFi es gratis?">>, answer |-> "<wifi>"],
       [category |-> "spa", questions |-> <<"¿Tienen spa?">>, answer |-> "<spa>"],
       [category |-> "gym", questions |-> <<"¿Tienen gimnasio?">>, answer |-> "<gym>"]>>,
     <<[category |-> "pool", questions |-> <<"¿hay piscina?", "piscina">>, answer |-> "<pool>"],
       [category |-> "late", questions |-> <<"¿hay salida?">>, answer |-> "<late>"]>>}

\* the questions of a table with their similarity to the question asked, in
\* the order of the two loops
RECURSIVE Similarities(_, _, _, _)
Similarities(question, data, t, k) ==
    IF t > Len(data) THEN <<>>
    ELSE IF k > Len(data[t].questions) THEN Similarities(question, data, t + 1, 1)
    ELSE <<[topic |-> t, similarity |-> calculate_similarity(question, data[t].questions[k])]>>
            \o Similarities(question, data, t, k + 1)

\* the loop that keeps the best match: 0 when no question passes the threshold
RECURSIVE BestMatch(_, _, _, _)
BestMatch(sims, n, best_match, best_similarity) ==
    IF n > Len(sims) THEN best_match
    ELSE IF Greater(sims[n].similarity, best_similarity) /\ AboveThreshold(sims[n].similarity)
      THEN BestMatch(sims, n + 1, sims[n].topic, sims[n].similarity)
    ELSE BestMatch(sims, n + 1, best_match, best_similarity)

\* key_term in category.lower() or any(key_term in q.lower() for q in questions)
TopicHasTerm(entry, key_term) ==
    \/ Contains(Lower(entry.category), key_term)
    \/ \E k \in 1..Len(entry.questions) : Contains(Lower(entry.questions[k]), key_term)

\* the second step: the first topic that has the first key term of the
\* question that some topic has; 0 when there is none
KeywordMatch(question, data) ==
    LET hits == {<<n, t>> \in (1..Len(key_terms)) \X (1..Len(data)) :
                    /\ Contains(Lower(question), key_terms[n])
                    /\ TopicHasTerm(data[t], key_terms[n])}
        first == CHOOSE h \in hits :
                    \A g \in hits : h[1] < g[1] \/ (h[1] = g[1] /\ h[2] <= g[2])
    IN  IF hits = {} THEN 0 ELSE first[2]

\* get_faq_response(question) on the table data; step: which step answered
get_faq_response(question, data) ==
    The({IF best # 0
           THEN [answer |-> data[best].answer, step |-> "similarity", topic |-> best]
           ELSE The({IF term # 0
                       THEN [answer |-> data[term].answer, step |-> "keyword", topic |-> term]
                       ELSE [answer |-> FrontDesk, step |-> "default", topic |-> 0]
                       : term \in {KeywordMatch(question, data)}})
           : best \in {BestMatch(Similarities(question, data, 1, 1), 1, 0,
                                 [matches |-> 0, length |-> 1])}})

\* what the guest asks: a word with or without a question around it
QuestionFrames ==
    {[before |-> "", after |-> ""], [before |-> "¿Tienen ", after |-> "?"],
     [before |-> "¿hay ", after |-> "?"], [before |-> "tienen", after |-> "xx"]}

QuestionWords == {"", "spa", "wifi", "gym", "gimnasio", "piscina", "salida", "sopa", "El WiFi es gratis"}

Questions == {f.before \o w \o f.after : f \in QuestionFrames, w \in QuestionWords} \ {""}

InitFaq ==
    /\ InitConversation
    /\ cls = NoProbe
    /\ ext = NoExtraction
    /\ ord = NoOrder
    /\ faq \in {[NoQuestion EXCEPT !.question = q, !.data = d] : q \in Questions, d \in FaqTables}

Ask ==
    /\ ~faq.done
    /\ \E r \in {get_faq_response(faq.question, faq.data)} :
          faq' = [faq EXCEPT !.answer = r.answer, !.step = r.step, !.topic = r.topic,
                             !.done = TRUE]
    /\ UNCHANGED <<ctx, requests, orders, guest, turn, nlp, pre, last, fill, log, clean, cls, ext, conv, flight, sends, clock, ord>>

NextFaq == Ask

SpecFaq == InitFaq /\ [][NextFaq]_vars

\* ------------------------------------------------------------------------
\* Properties
\* ------------------------------------------------------------------------
\* the last turn ended in the except clause of process_message
Raised == last.failure \in {"bad_message", "bad_history"}

\* the last turn returned normally
Succeeded == turn > 0 /\ ~Raised

\* the last turn stored a transportation request
Booked == last.request_id # 0

SlotQuestions == {AskDestination, AskVehicle, AskTime}

ClarifyingQuestions == SlotQuestions \cup {AskSpecificDestination, AskHandlerDestination}

\* C1: every call of process_message returns a (reply, context) pair; an error
\* raised inside the turn never reaches the caller.
C1_NeverRaises == turn > 0 => (~last.raised /\ last.response # "")

\* an error was raised inside the turn and the caller got the apology
C1_Witness == Raised /\ last.response = Apology /\ ~last.raised

\* C2: when an error is raised inside a turn, the returned context equals the
\* context before the turn, nested lists included.
C2_ErrorKeepsContext == Raised => ctx = pre

\* C3: from the empty context, turns carrying only a destination, only a
\* vehicle type and only a pickup time get a question, a question and then a
\* booking confirmation with awaiting null, whatever the wording.
C3_SlotFillConverges ==
    /\ fill \in {1, 2} => last.response \in SlotQuestions
    /\ fill = 3 => (Booked /\ ctx.awaiting = Null)

\* C4: schedule_transportation is called in a turn only with destination,
\* vehicle_type and pickup_time all resolved; a turn that answers with a
\* clarifying question stores no transportation request.
C4_ScheduleOnlyWhenResolved ==
    /\ last.invoked => \A k \in 1..Len(required_fields) : last.resolved[required_fields[k]] # Null
    /\ Len(requests) > last.requests_before => last.invoked
    /\ last.response \in ClarifyingQuestions =>
          (~last.invoked /\ Len(requests) = last.requests_before)

\* a turn booked with a destination taken from the context
C4_Witness ==
    /\ last.invoked /\ Len(requests) = last.requests_before + 1
    /\ nlp.analysis[last.message].entities.destination = Null
    /\ requests[Len(requests)].destination = pre.destination

\* C5: after a turn that booked, the context holds no awaiting, current_intent,
\* destination, vehicle_type, pickup_time or time.
C5_BookingClearsSlots ==
    Booked => /\ ctx.awaiting = Null /\ ctx.current_intent = Null
              /\ ctx.destination = Null /\ ctx.vehicle_type = Null
              /\ ctx.pickup_time = Null /\ ctx.time = Null

\* C6: awaiting is non-null exactly after a turn that returned a transportation
\* clarifying question, and then names the slot asked for.
C6_AwaitingNamesSlot ==
    /\ (ctx.awaiting # Null) <=> (last.response \in ClarifyingQuestions)
    /\ last.response \in {AskDestination, AskSpecificDestination, AskHandlerDestination}
          => ctx.awaiting = "destination"
    /\ last.response = AskVehicle => ctx.awaiting = "vehicle_type"
    /\ last.response = AskTime => ctx.awaiting = "pickup_time"

\* C7 as claimed: after a successful turn current_intent is the intent the
\* classifier gave the message, and previous_intent the earlier current_intent.
C7_CurrentIntentIsClassified ==
    Succeeded => /\ ctx.current_intent = last.classified
                 /\ pre.current_intent # Null => ctx.previous_intent = pre.current_intent

\* C7 amended: after a successful turn current_intent is the classified intent,
\* unless the message contains a locative term and the context holds a previous
\* intent: then current_intent is that previous intent.  previous_intent is the
\* earlier current_intent whenever there was one.
C7_CurrentIntentUnlessLocative ==
    Succeeded =>
        LET previous == IF pre.current_intent # Null THEN pre.current_intent
                        ELSE pre.previous_intent
        IN  /\ ctx.current_intent =
                  IF nlp.analysis[last.message].ambiguous /\ previous # Null
                    THEN previous ELSE last.classified
            /\ pre.current_intent # Null => ctx.previous_intent = pre.current_intent

\* a locative message kept the earlier intent against the classifier
C7_Witness ==
    /\ Succeeded /\ nlp.analysis[last.message].ambiguous
    /\ pre.current_intent # Null /\ ctx.current_intent = pre.current_intent
    /\ ctx.current_intent # last.classified

\* C8: after N successful turns from the empty context intent_history lists the
\* intents of the N turns in order.
C8_HistoryHasEveryIntent == clean => ctx.intent_history = log

\* C9: classify_intent returns ('transportation', 0.8) for every message when the
\* context has current_intent 'transportation' and lacks destination or pickup_time.
C9_ContinuesTransportation ==
    (/\ cls.result # Pending
     /\ cls.context # <<>>
     /\ cls.context[1].current_intent = "transportation"
     /\ cls.context[1].destination = Null \/ cls.context[1].pickup_time = Null)
    => cls.result = [intent |-> "transportation", confidence |-> 80]

\* a greeting classified while the stored request has a destination but no pickup time
C9_Witness ==
    /\ cls.result = [intent |-> "transportation", confidence |-> 80]
    /\ cls.message = "hola"
    /\ cls.context # <<>>
    /\ cls.context[1].destination # Null /\ cls.context[1].pickup_time = Null

\* C10: when the responder or the store write fails, the returned context equals
\* the context before the turn.
C10_CollaboratorFailureKeepsContext == last.failure \in {"responder", "store"} => ctx = pre

\* C11: for a message that states a clock time H[:MM] with an optional am/pm
\* marker, extract_entities gives time and pickup_time the stated time in 24-hour
\* form, minutes kept.
C11_ClockTimeKept ==
    (ext.done /\ ext.kind = "time") =>
        (ext.result.time = ext.expect /\ ext.result.pickup_time = ext.expect)

\* C12 as claimed: for a message that contains a landmark of common_destinations,
\* extract_entities returns that landmark as the destination.
C12_LandmarkIsDestination ==
    (ext.done /\ ext.kind = "landmark") => ext.result.destination = ext.expect.landmark

\* C12 amended: for a message that has a word opening the transportation block
\* and a landmark standing as a whole word, the destination is the landmark of
\* the message that comes first in common_destinations, whatever the free-text
\* patterns would capture.
C12_LandmarkInTransportMessage ==
    (ext.done /\ ext.kind = "landmark" /\ ext.expect.trigger /\ ext.expect.word)
        => ext.result.destination = ext.expect.first

\* a landmark returned where the free-text pattern captures a longer phrase
C12_Witness ==
    /\ ext.done /\ ext.message = "quiero ir a la zona del aeropuerto"
    /\ DestPattern1(Strip(Lower(ext.message))) = "zona del aeropuerto"
    /\ ext.result.destination = "aeropuerto"

\* C13: a turn classified room_service whose message yields order items places
\* exactly one room-service order for the guest with those items.
C13_RoomServicePlacesOrder ==
    (Succeeded /\ last.intent = "room_service"
       /\ nlp.analysis[last.message].entities.order_items # <<>>)
    => /\ Len(orders) = last.orders_before + 1
       /\ orders[Len(orders)].guest_id = guest.id
       /\ orders[Len(orders)].items = nlp.analysis[last.message].entities.order_items

\* C14: once a recommendation turn has stored its places, a follow-up that asks
\* about one of them by an ordinal word is answered from the stored list, the
\* generative responder is not invoked.
C14_OrdinalFollowUp ==
    (Succeeded /\ pre.all_recommendations # <<>> /\ last.message = "cuéntame más del segundo")
    => /\ last.path # "default"
       /\ last.response # Generated

\* the last turn took the transportation branch with a required slot unresolved
SlotUnresolved ==
    /\ last.path = "transportation"
    /\ \E k \in 1..Len(required_fields) : last.resolved[required_fields[k]] = Null

\* C15: while the stored context has current_intent 'transportation' and lacks
\* a destination or a pickup_time, the next turn takes the transportation path
\* whatever the message says.
C15_SlotFillStaysOnTransportPath ==
    (Succeeded /\ pre.current_intent = "transportation"
       /\ (pre.destination = Null \/ pre.pickup_time = Null))
    => last.path = "transportation"

\* C16: a transportation turn with a required slot unresolved returns the
\* question for the first unresolved slot in the order destination,
\* vehicle_type, pickup_time and stores no request; the returned context holds
\* every slot resolved so far, and a slot the context already held is not the
\* one asked for.
C16_OneQuestionSlotsRetained ==
    SlotUnresolved =>
        LET unresolved == {k \in 1..Len(required_fields) :
                              last.resolved[required_fields[k]] = Null}
            first == CHOOSE k \in unresolved : \A j \in unresolved : k <= j
        IN  /\ last.response = <<AskDestination, AskVehicle, AskTime>>[first]
            /\ Len(requests) = last.requests_before
            /\ \A k \in 1..Len(required_fields) :
                  /\ last.resolved[required_fields[k]] # Null
                        => ctx[required_fields[k]] = last.resolved[required_fields[k]]
                  /\ pre[required_fields[k]] # Null
                        => (ctx[required_fields[k]] # Null /\ k # first)

\* the time is asked for while destination and vehicle type are kept from earlier turns
C16_Witness ==
    /\ SlotUnresolved /\ last.response = AskTime
    /\ nlp.analysis[last.message].entities.destination = Null
    /\ pre.destination # Null /\ ctx.destination = pre.destination
    /\ ctx.vehicle_type # Null

\* C17: the destination a transportation turn uses is the first available of
\* the destination in the message, the destination stored in the context,
\* last_mentioned_destination and the first entry of all_recommendations.
C17_DestinationPrecedence ==
    last.path = "transportation" =>
        LET a == nlp.analysis[last.message]
            mentioned == IF a.places # <<>> THEN a.places[1]
                         ELSE pre.last_mentioned_destination
            expected == IF a.entities.destination # Null THEN a.entities.destination
                        ELSE IF pre.destination # Null THEN pre.destination
                        ELSE IF mentioned # Null THEN mentioned
                        ELSE IF pre.all_recommendations # <<>> THEN pre.all_recommendations[1]
                        ELSE Null
        IN  /\ last.resolved.destination = expected
            /\ Len(requests) > last.requests_before
                  => requests[Len(requests)].destination = expected

\* C18: in a transportation turn where neither the message nor the context
\* gives a vehicle_type and the guest profile stores a transport preference,
\* vehicle_type resolves to the preference and no vehicle question is returned.
C18_GuestPreferenceFillsVehicle ==
    (/\ last.path = "transportation"
     /\ nlp.analysis[last.message].entities.vehicle_type = Null
     /\ pre.vehicle_type = Null /\ pre.preferred_transport = Null
     /\ guest.preferences = PrefersUber)
    => /\ last.resolved.vehicle_type = PreferredTransport(guest)
       /\ last.response # AskVehicle

\* C19: in every context reached from the empty one, time and pickup_time are
\* both absent or both present with the same value.
C19_TimeKeysAgree == ctx.time = ctx.pickup_time

\* a turn without a time of its own inherits the pair stored by an earlier turn
C19_Witness ==
    /\ last.path = "transportation"
    /\ nlp.analysis[last.message].entities.time = Null
    /\ pre.time # Null /\ ctx.time = pre.time /\ ctx.pickup_time = pre.time
    /\ last.resolved.pickup_time = pre.time

\* C20: after a successful turn that recognizes a destination (an extracted
\* destination, a known place named in the message, or a place returned by a
\* recommendation), last_mentioned_destination is that destination.
C20_LastMentionedIsRecognized ==
    Succeeded =>
        LET a == nlp.analysis[last.message]
            recommended == last.intent = "recommendation" /\ a.entities.category # Null
                           /\ last.recommendations # <<>>
            recognized == IF a.entities.destination # Null THEN a.entities.destination
                          ELSE IF a.places # <<>> THEN a.places[1]
                          ELSE IF recommended THEN last.recommendations[1]
                          ELSE Null
        IN  recognized # Null => ctx.last_mentioned_destination = recognized

\* the slots the extractor can fill, and whether a value means the slot is filled
SlotNames ==
    {"time", "pickup_time", "category", "time_period", "order_items",
     "special_instructions", "destination", "vehicle_type", "num_passengers"}

Extracted(e, slot) == e[slot] # NoEntities[slot]

\* C21: after every successful turn, whatever its intent, each slot extracted
\* from the message is stored in the returned context under its name with the
\* extracted value, and the slot name is listed in known_entities.
C21_ExtractedSlotsStored ==
    Succeeded =>
        \A slot \in SlotNames :
            Extracted(nlp.analysis[last.message].entities, slot)
              => /\ ctx[slot] = nlp.analysis[last.message].entities[slot]
                 /\ \E k \in 1..Len(ctx.known_entities) : ctx.known_entities[k] = slot

\* C22: after every turn handled through send_message, on either path, the
\* stored history has at most MAX_CONVERSATION_HISTORY entries.
C22_HistoryWithinLimit == Len(conv.history) <= MAX_CONVERSATION_HISTORY

\* the turn of a stored request is in the stored history: its message and,
\* next to it, its reply
InHistory(send) ==
    \E k \in 1..(Len(conv.history) - 1) :
        /\ conv.history[k] = Entry("user", send.message, send.id)
        /\ conv.history[k + 1] = Entry("assistant", send.response, send.id)

\* the context after the turn of a message handled on the given context
ContextAfter(message, context) ==
    process_message(message, guest, "none", <<>>, context, requests).context

\* C29: when two requests for the same conversation interleave (the second to
\* store had loaded the row before the first stored), then once both have
\* stored, the history holds the message and the reply of both turns and the
\* context is the result of applying both turns.
C29_InterleavedTurnsBothKept ==
    \A i \in 1..(Len(sends) - 1) :
        LET a == sends[i]
            b == sends[i + 1]
        IN  (i + 1 = Len(sends) /\ b.loaded < a.id)
            => /\ InHistory(a) /\ InHistory(b)
               /\ conv.context \in {ContextAfter(b.message, a.after),
                                    ContextAfter(a.message, ContextAfter(b.message, a.before))}

\* the classifier was applied to a message on which a pattern matches / no pattern matches
SomePatternMatches ==
    /\ cls.result # Pending
    /\ \E k \in 1..Len(IntentNames) : MatchCount(IntentNames[k], Strip(Lower(cls.message))) > 0

NoPatternMatches ==
    /\ cls.result # Pending
    /\ \A k \in 1..Len(IntentNames) : MatchCount(IntentNames[k], Strip(Lower(cls.message))) = 0

\* the match count of an intent on the classified message, plus one for the
\* intent the context holds as current_intent
Matches(intent) ==
    MatchCount(intent, Strip(Lower(cls.message)))
      + (IF CtxGet(cls.context, "current_intent") = intent THEN 1 ELSE 0)

\* position of an intent in the intent table
IntentIndex(intent) == CHOOSE k \in 1..Len(IntentNames) : IntentNames[k] = intent

\* C23: when a pattern matches (and the transportation short-circuit does not
\* apply), the returned intent has the greatest match count of all intents
\* that match, bonus included, and is the first declared among those with that
\* count; an intent with fewer matches is never returned over one with more.
C23_GreatestMatchCountWins ==
    (SomePatternMatches /\ ~ContinueTransportation(cls.context))
    => \A j \in 1..Len(IntentNames) :
          MatchCount(IntentNames[j], Strip(Lower(cls.message))) > 0
            => \/ Matches(IntentNames[j]) < Matches(cls.result.intent)
               \/ /\ Matches(IntentNames[j]) = Matches(cls.result.intent)
                  /\ IntentIndex(cls.result.intent) <= j

\* C24 as claimed: whenever a pattern matches, the confidence is
\* min(0.5 + 0.1 n, 0.95) for n the match count of the returned intent, bonus
\* included, and every confidence lies in [0, 1].
C24_ConfidenceFromMatchCount ==
    /\ SomePatternMatches
          => cls.result.confidence = Min(50 + 10 * Matches(cls.result.intent), 95)
    /\ cls.result.confidence >= 0 /\ cls.result.confidence <= 100

\* C24 amended: the same, for the messages the classifier scores, that is
\* unless the transportation short-circuit applies (which returns 0.8).
C24_ConfidenceFromMatchCountWhenScored ==
    /\ (SomePatternMatches /\ ~ContinueTransportation(cls.context))
          => cls.result.confidence = Min(50 + 10 * Matches(cls.result.intent), 95)
    /\ cls.result.confidence >= 0 /\ cls.result.confidence <= 100

\* five patterns of one intent match: 0.5 + 0.5 is capped at 0.95
C24_Witness ==
    /\ cls.message = "taxi uber carro viaje traslado"
    /\ cls.context = <<>>
    /\ cls.result = [intent |-> "transportation", confidence |-> 95]

\* C25 as claimed: when no pattern matches, the result is (current_intent, 0.4)
\* if the context holds a current_intent and ('faq', 0.3) otherwise.
C25_NoMatchFallback ==
    NoPatternMatches
    => cls.result = IF CtxGet(cls.context, "current_intent") # Null
                      THEN [intent |-> CtxGet(cls.context, "current_intent"), confidence |-> 40]
                      ELSE [intent |-> "faq", confidence |-> 30]

\* C25 amended: the same, unless the context holds a transportation request
\* that lacks its destination or pickup time: then ('transportation', 0.8).
C25_NoMatchFallbackUnlessContinuing ==
    NoPatternMatches
    => cls.result = IF ContinueTransportation(cls.context)
                      THEN [intent |-> "transportation", confidence |-> 80]
                    ELSE IF CtxGet(cls.context, "current_intent") # Null
                      THEN [intent |-> CtxGet(cls.context, "current_intent"), confidence |-> 40]
                    ELSE [intent |-> "faq", confidence |-> 30]

\* a message without any pattern keeps the greeting of the context
C25_Witness ==
    /\ cls.message = "9 pm"
    /\ cls.context # <<>>
    /\ cls.context[1].current_intent = "greeting"
    /\ cls.result = [intent |-> "greeting", confidence |-> 40]

\* C26: the hour of the extracted time comes from the hour digits and the
\* am/pm marker attached to the clock time only; the letters am or pm
\* elsewhere in the message do not change it.
C26_HourFromAttachedMarker ==
    (ext.kind = "marker" /\ ext.done) => ext.result.time = ext.expect

\* a time of day HH:00 on the 24-hour clock
ValidClockValue(t) == \E hour \in 0..23 : t = TimeOfDay(hour, "00")

\* C30: every time / pickup_time that extract_entities produces is a valid
\* 24-hour value HH:00 with HH in 00..23; a number that is not a clock hour (a
\* passenger count, a room number, a value above 23) yields no time.
C30_TimeIsValidClockValue ==
    ext.done =>
        /\ ext.result.time # Null => ValidClockValue(ext.result.time)
        /\ ext.result.pickup_time # Null => ValidClockValue(ext.result.pickup_time)
        /\ (ext.kind = "number" /\ ~ext.expect.clock)
              => (ext.result.time = Null /\ ext.result.pickup_time = Null)

\* an item name and a menu entry match: equal in lower case, or one contains the other
NameMatches(entry, item_name) ==
    \/ Lower(entry.name) = Lower(item_name)
    \/ Contains(Lower(entry.name), Lower(item_name))
    \/ Contains(Lower(item_name), Lower(entry.name))

RECURSIVE SumPrices(_)
SumPrices(lines) == IF lines = <<>> THEN 0 ELSE Head(lines).price + SumPrices(Tail(lines))

\* C27: place_order for an existing guest persists exactly one order with one
\* line per requested item, in request order; an item that matches no menu
\* entry is kept under its own name at price 0 and the order is not rejected;
\* total_price is the sum of the prices of the matched lines.
C27_OrderKeepsEveryItem ==
    (ord.done /\ \E g \in Guests : g.id = ord.guest_id)
    => /\ ~ord.raised
       /\ Len(orders) = 1 /\ ord.order_id = 1
       /\ orders[1].guest_id = ord.guest_id
       /\ Len(orders[1].order_items) = Len(ord.items)
       /\ \A k \in 1..Len(ord.items) :
             LET line == orders[1].order_items[k]
                 known == {j \in 1..Len(ord.menu) : NameMatches(ord.menu[j], ord.items[k])}
             IN  IF known = {}
                   THEN line.name = ord.items[k] /\ line.price = 0
                   ELSE \E j \in known : line.name = ord.menu[j].name
                                         /\ line.price = ord.menu[j].price
       /\ orders[1].total_price = SumPrices(orders[1].order_items)

\* an order with an item that is not on the menu and an item that is part of a menu name
C27_Witness ==
    /\ ord.done /\ ~ord.raised
    /\ ord.items = <<"pizza", "hamburguesa">>
    /\ ord.menu = default_menu
    /\ Len(orders) = 1
    /\ orders[1].order_items = <<[name |-> "pizza", price |-> 0, quantity |-> 1],
                                 [name |-> "Hamburguesa Aramé", price |-> 38000, quantity |-> 1]>>
    /\ orders[1].total_price = 38000

\* C28: get_faq_response answers with the topic that holds a canned question
\* of the highest similarity to the input when that similarity is above 0.6;
\* when no canned question is above 0.6 it answers with a topic that has a key
\* term of the question; when no key term applies it answers with the generic
\* front-desk message; the similarity step never chooses a topic at 0.6 or less.
C28_FaqAnswerBySteps ==
    faq.done =>
        \E sims \in {Similarities(faq.question, faq.data, 1, 1)} :
            LET good == {n \in 1..Len(sims) :
                            10 * sims[n].similarity.matches > 3 * sims[n].similarity.length}
                top == {n \in good : \A m \in good :
                            sims[m].similarity.matches * sims[n].similarity.length
                                <= sims[n].similarity.matches * sims[m].similarity.length}
                termed == {t \in 1..Len(faq.data) : \E n \in 1..Len(key_terms) :
                            /\ Contains(Lower(faq.question), key_terms[n])
                            /\ TopicHasTerm(faq.data[t], key_terms[n])}
            IN  IF good # {}
                  THEN /\ faq.step = "similarity"
                       /\ faq.topic \in {sims[n].topic : n \in top}
                       /\ faq.answer = faq.data[faq.topic].answer
                ELSE IF termed # {}
                  THEN /\ faq.step = "keyword"
                       /\ faq.topic \in termed
                       /\ faq.answer = faq.data[faq.topic].answer
                ELSE faq.step = "default" /\ faq.answer = FrontDesk

\* a question that is not a canned one was answered by the similarity step
\* while a question of another topic stayed at 0.6 or less
C28_Witness ==
    /\ faq.done
    /\ faq.step = "similarity"
    /\ \A t \in 1..Len(faq.data) : \A k \in 1..Len(faq.data[t].questions) :
            Lower(faq.data[t].questions[k]) # Lower(faq.question)
    /\ \E t \in 1..Len(faq.data) : \E k \in 1..Len(faq.data[t].questions) :
            /\ t # faq.topic
            /\ \E s \in {calculate_similarity(faq.question, faq.data[t].questions[k])} :
                    s.matches > 0 /\ 10 * s.matches <= 3 * s.length

C28_KeywordAnswered == faq.done /\ faq.step = "keyword"

C28_FrontDeskAtThreshold ==
    /\ faq.done
    /\ faq.step = "default"
    /\ \E t \in 1..Len(faq.data) : \E k \in 1..Len(faq.data[t].questions) :
            \E s \in {calculate_similarity(faq.question, faq.data[t].questions[k])} :
                    10 * s.matches = 3 * s.length

====
